---- MODULE Spec2Model ----
(***************************************************************************)
(* The tool-call loop of POST /completions (src/src/routes/chat.ts) with   *)
(* its collaborators: the upstream model (client.chat.completions.create), *)
(* the UnifAI tool service (unifaiService.getTools / callTools), the       *)
(* in-memory store (dbService over memoryStore) and the error middleware.  *)
(*                                                                         *)
(* One request is followed from entry to its response.  The handler is an  *)
(* async function: it is suspended exactly at its awaits on the two        *)
(* external services, so every action below is the code that runs from one *)
(* such await to the next.  The awaits on dbService resolve at once (the   *)
(* store is an array push) and are part of the enclosing action.           *)
(*                                                                         *)
(* Text is a sequence of tokens; <<>> is the empty string or null, which   *)
(* the code never tells apart (both are falsy).                            *)
(***************************************************************************)
EXTENDS Integers, Sequences, FiniteSets, TLC

\* The model is asked for at most this many completions in one run (the code
\* has no such limit; the guard of CallToolsReturn keeps the run finite).
MaxModelCalls == 3

VARIABLES
    pc,                   \* where the handler is suspended
    stream,               \* validatedData.stream
    userTools,            \* TRUE iff the body carries tools
    finalTools,           \* the tool schema given to every completion
    conversationMessages, \* chat.ts:144
    allResponses,         \* chat.ts:145
    toolNamesUsed,        \* chat.ts:146
    totalTokens,          \* chat.ts:147
    dbRequest,            \* chat.ts:103, TRUE once createRequest returned
    memoryStore,          \* data-source.ts:51
    headersSent,          \* res.headersSent
    events,               \* what res.write put on the event stream, in order
    httpResponse,         \* what res.json sent: <<>> or <<[status, body]>>
    resState,             \* "open", "ended" (res.end / res.json), "destroyed"
    modelCalls,           \* arguments of each completions.create call, in order
    modelReturns,         \* the responses the model returned, in order
    invokeCalls,          \* argument of each callTools call, in order
    invokeReturns,        \* the arrays callTools returned, in order
    listCalls,            \* number of getTools calls
    trace,                \* the external calls and the res.write calls, in the
                          \* order they were issued
    nextError,            \* the error handed to next(error): <<>> or <<error>>
    closedAt,             \* <<>>, or <<n>>: the client closed the connection
                          \* when the trace had n entries
    apiKey,               \* process.env.OPENROUTER_API_KEY
    \* runCryptoTokenAnalysis (routes/tokenAnalysis.ts), one run of it:
    aPc,                  \* where the function is suspended
    aMessages,            \* its messages array
    aModelCalls,          \* arguments of each completions.create call, in order
    aInvokeCalls,         \* argument of each callTools call, in order
    aTrace,               \* its external calls in the order they were issued
    aResult,              \* <<>>, or <<text>>: what the function returned
    \* POST /analyze (routes/tokenAnalysis.ts), one request:
    rPc,                  \* where the handler is
    rResponses,           \* the responses sent on res, in order
    file,                 \* the page in public/: "none", "writing", "written"
                          \* or "failed"
    uncaught,             \* the exceptions thrown out of a callback
    \* Two chat requests in flight at once:
    handlers              \* the locals of each request's handler, by request

\* The variables of the chat handler, the store apart.
localVars == <<pc, stream, userTools, finalTools, conversationMessages,
               allResponses, toolNamesUsed, totalTokens, dbRequest, headersSent,
               events, httpResponse, resState, modelCalls, modelReturns,
               invokeCalls, invokeReturns, listCalls, trace, nextError, closedAt,
               apiKey>>

analyzeVars == <<aPc, aMessages, aModelCalls, aInvokeCalls, aTrace, aResult>>

routeVars == <<rPc, rResponses, file, uncaught>>

vars == <<localVars, memoryStore, analyzeVars, routeVars, handlers>>

-----------------------------------------------------------------------------
(* Values *)

requestId == "req"
\* req.body.model, a text in tokens: the vendor prefix and the rest.
model == <<"anthropic/", "claude">>

\* process.env.OPENROUTER_API_KEY, a text in tokens: the prefix that tells
\* the backend and the rest.
OpenRouterKey == <<"sk-or-v1-", "key">>
AnthropicKey == <<"sk-ant-", "key">>

\* req.body.messages: one user message.
messages == << [role |-> "user", content |-> <<"hi">>, tool_calls |-> <<>>,
                tool_call_id |-> ""] >>

ToolCall(id, name) == [id |-> id, name |-> name, arguments |-> "args"]

\* assistantMessage.tool_calls of a turn that asks for tools: one call, or two
\* calls with distinct ids.  The id "a" comes back in every turn.
ToolCallBatches ==
    { << ToolCall("a", "lookup") >>,
      << ToolCall("a", "price"), ToolCall("b", "lookup") >> }

\* response.usage: absent, or the three counters.
NoUsage == [has |-> FALSE, prompt_tokens |-> 0, completion_tokens |-> 0,
            total_tokens |-> 0]
Usage(prompt, completion) ==
    [has |-> TRUE, prompt_tokens |-> prompt, completion_tokens |-> completion,
     total_tokens |-> prompt + completion]

\* A completion whose first choice asks for tools (it reports its usage).
ToolCallResponses ==
    [content : {<<>>, <<"x">>}, tool_calls : ToolCallBatches,
     finish_reason : {"tool_calls"}, usage : {Usage(2, 1)}]

\* A completion whose first choice asks for no tool, with or without usage.
FinalResponses ==
    [content : {<<>>, <<"y">>}, tool_calls : {<<>>},
     finish_reason : {"stop", "length"}, usage : {NoUsage, Usage(3, 2)}]

\* What completions.create may return.
ModelResponses == ToolCallResponses \cup FinalResponses

\* The result of the tool call id: its content is that call's own.
ToolResult(id) == [role |-> "tool", content |-> <<"r", id>>, tool_calls |-> <<>>,
                   tool_call_id |-> id]

\* The result of a tool call that failed: the SDK gives the failure as content.
FailedResult(id) == [role |-> "tool", content |-> <<"failed">>, tool_calls |-> <<>>,
                     tool_call_id |-> id]

RECURSIVE Reverse(_)
Reverse(s) == IF s = <<>> THEN <<>> ELSE Append(Reverse(Tail(s)), Head(s))

\* One result per call, in the order of the calls.
FullResults(toolCalls) == [i \in 1..Len(toolCalls) |-> ToolResult(toolCalls[i].id)]

\* What callTools may return for a batch: a result per call, the same with
\* the first call failed, the same reordered, all but the last, nothing, or a
\* result whose id no call of the batch has ("b" is the id of another turn's
\* call, "z" of none).
InvokeResults(toolCalls) ==
    { FullResults(toolCalls),
      [FullResults(toolCalls) EXCEPT ![1] = FailedResult(toolCalls[1].id)],
      Reverse(FullResults(toolCalls)),
      SubSeq(FullResults(toolCalls), 1, Len(toolCalls) - 1),
      <<>>,
      << ToolResult(IF Len(toolCalls) = 1 THEN "b" ELSE "z") >> }

\* Errors: err.status is set by the OpenAI client (0: not set), the other
\* fields by this program ("" / 0: not set).
ApiError(status) == [name |-> "Error", status |-> status, statusCode |-> 0,
                     code |-> "", type |-> ""]
ErrorStatuses == {0, 401, 500}

-----------------------------------------------------------------------------
(* Pure functions *)

\* The requests in flight at once and the most tool turns each may take
\* (bounds of the model).
MaxToolTurns == 1
Requests == {"r1", "r2"}

\* chat.ts:103-147: the locals of a handler that has not begun.
IdleHandler ==
    [pc |-> "idle", conversationMessages |-> <<>>, allResponses |-> <<>>,
     toolNamesUsed |-> <<>>,
     totalTokens |-> [prompt |-> 0, completion |-> 0, total |-> 0],
     modelReturns |-> <<>>, invokeReturns |-> <<>>, response |-> <<>>]


RECURSIVE SumSeq(_)
SumSeq(s) == IF s = <<>> THEN 0 ELSE Head(s) + SumSeq(Tail(s))

RECURSIVE Flatten(_)
Flatten(ss) == IF ss = <<>> THEN <<>> ELSE Head(ss) \o Flatten(Tail(ss))

Last(s) == s[Len(s)]

\* A slip: a name is recorded only the first time the tool is used.
ToolNamesOf_Distinct(toolCalls) ==
    SelectSeq([i \in 1..Len(toolCalls) |-> toolCalls[i].name],
              LAMBDA n : \A k \in 1..Len(toolNamesUsed) : toolNamesUsed[k] # n)

\* text.replace(token, ""): the first occurrence of the token is removed.
RECURSIVE RemoveFirst(_, _)
RemoveFirst(text, token) ==
    IF text = <<>> THEN <<>>
    ELSE IF Head(text) = token THEN Tail(text)
    ELSE <<Head(text)>> \o RemoveFirst(Tail(text), token)

StartsWith(text, token) == text # <<>> /\ text[1] = token

\* chat.ts:178-183: the model name given to the upstream.
ActualModel(name, key) ==
    IF StartsWith(key, "sk-ant-") /\ StartsWith(name, "anthropic/")
    THEN RemoveFirst(name, "anthropic/")
    ELSE name

\* tool_calls.map((tc) => tc.function.name)
ToolNamesOf(toolCalls) == [i \in 1..Len(toolCalls) |-> toolCalls[i].name]

\* A slip: the totals are overwritten by the last usage instead of added to.
AddUsage_Overwrite(tokens, usage) ==
    IF usage.has
    THEN [prompt |-> usage.prompt_tokens,
          completion |-> usage.completion_tokens,
          total |-> usage.total_tokens]
    ELSE tokens

\* totalTokens after a response
AddUsage(tokens, usage) ==
    IF usage.has
    THEN [prompt |-> tokens.prompt + usage.prompt_tokens,
          completion |-> tokens.completion + usage.completion_tokens,
          total |-> tokens.total + usage.total_tokens]
    ELSE tokens

-----------------------------------------------------------------------------
(* The store: dbService.create* -> repository.save -> memoryStore.*.push *)

\* A slip: the request record is not written at the entry of the request.
createRequest_NotAtEntry(store, data) == store

createRequest(store, data) ==
    [store EXCEPT !.requests = Append(@, data)]

createResponse(store, data) ==
    [store EXCEPT !.responses = Append(@, data)]

\* A slip: the usage record is given the model name sent to the upstream.
createTokenUsage_ActualModel(store, data) ==
    [store EXCEPT !.tokenUsage =
        Append(@, [data EXCEPT !.id = Len(store.tokenUsage) + 1,
                               !.model = ActualModel(data.model, apiKey)])]

createTokenUsage(store, data) ==
    [store EXCEPT !.tokenUsage = Append(@, [data EXCEPT !.id = Len(store.tokenUsage) + 1])]

createToolCall(store, data) ==
    [store EXCEPT !.toolCalls = Append(@, [data EXCEPT !.id = Len(store.toolCalls) + 1])]

\* toolResults.find((r) => r.tool_call_id === toolCall.id)?.content || undefined
FindResult(toolResults, id) ==
    IF \E i \in 1..Len(toolResults) : toolResults[i].tool_call_id = id
    THEN toolResults[CHOOSE i \in 1..Len(toolResults) :
                        /\ toolResults[i].tool_call_id = id
                        /\ \A j \in 1..(i - 1) : toolResults[j].tool_call_id # id].content
    ELSE <<>>

\* A slip: the result is taken at the position of the call in its turn.
ToolCallRecord_ByPosition(toolCall, toolResults) ==
    LET turn == Last(allResponses).toolCalls
        at == CHOOSE i \in 1..Len(turn) : turn[i] = toolCall
    IN  [id |-> 0, requestId |-> requestId, toolName |-> toolCall.name,
         toolId |-> toolCall.id, arguments |-> toolCall.arguments,
         result |-> IF at <= Len(toolResults) THEN toolResults[at].content ELSE <<>>,
         success |-> TRUE]

\* The record written for one call of the turn.
ToolCallRecord(toolCall, toolResults) ==
    [id |-> 0, requestId |-> requestId, toolName |-> toolCall.name,
     toolId |-> toolCall.id, arguments |-> toolCall.arguments,
     result |-> FindResult(toolResults, toolCall.id), success |-> TRUE]

\* for (const toolCall of assistantMessage.tool_calls) await createToolCall(..)
RECURSIVE RecordToolCalls(_, _, _)
RecordToolCalls(store, toolCalls, toolResults) ==
    IF toolCalls = <<>> THEN store
    ELSE RecordToolCalls(
             createToolCall(store, ToolCallRecord(Head(toolCalls), toolResults)),
             Tail(toolCalls), toolResults)

-----------------------------------------------------------------------------
(* The response *)

\* One chunk of the event stream; kind names the res.write that sent it.
Chunk(kind, content, finish_reason) ==
    [kind |-> kind, model |-> model, content |-> content,
     finish_reason |-> finish_reason]

InitialChunk == Chunk("initial", <<>>, "")

\* delta.content = `\n[使用工具: ${currentToolNames.join(", ")}]\n`
ToolChunk(currentToolNames) ==
    Chunk("tools", <<"[">> \o currentToolNames \o <<"]">>, "")

ContentChunk(content, finish_reason) == Chunk("content", content, finish_reason)

EndChunk(finish_reason) == Chunk("end", <<>>, finish_reason)

DoneSentinel == Chunk("[DONE]", <<>>, "")

\* A slip: the stream is ended without the [DONE] line.
StreamEnd_NoSentinel(finish_reason) == << EndChunk(finish_reason) >>

\* chat.ts:405-423: the last writes of a streaming response
StreamEnd(finish_reason) == << EndChunk(finish_reason), DoneSentinel >>

\* A slip: the response carries the content and tool calls of the last turn
\* only.
FinalResponse_LastOnly(responses, tokens, names) ==
    [id |-> requestId,
     model |-> model,
     content |-> Last(responses).content,
     tool_calls |-> Last(responses).toolCalls,
     finish_reason |-> IF responses # <<>> /\ Last(responses).finishReason # ""
                       THEN Last(responses).finishReason ELSE "stop",
     usage |-> [prompt_tokens |-> tokens.prompt,
                completion_tokens |-> tokens.completion,
                total_tokens |-> tokens.total],
     tools_used |-> names]

\* chat.ts:346-373
FinalResponse(responses, tokens, names) ==
    [id |-> requestId,
     model |-> model,
     content |-> Flatten([i \in 1..Len(responses) |-> responses[i].content]),
     tool_calls |-> Flatten([i \in 1..Len(responses) |-> responses[i].toolCalls]),
     finish_reason |-> IF responses # <<>> /\ Last(responses).finishReason # ""
                       THEN Last(responses).finishReason ELSE "stop",
     usage |-> [prompt_tokens |-> tokens.prompt,
                completion_tokens |-> tokens.completion,
                total_tokens |-> tokens.total],
     tools_used |-> names]

\* catch (apiError): a 401 becomes the program's own auth_error
CatchApiError(apiError) ==
    IF apiError.status = 401
    THEN [name |-> "Error", status |-> 0, statusCode |-> 401,
          code |-> "auth_error", type |-> ""]
    ELSE apiError

\* errorHandler: the status and the body of the error response
ErrorResponse(error) ==
    LET statusCode == IF error.statusCode # 0 THEN error.statusCode ELSE 500
        type == IF error.type # "" THEN error.type ELSE "internal_server_error"
        code == IF error.code # "" THEN error.code ELSE "unknown_error"
    IN  IF error.name = "ValidationError"
        THEN [status |-> 400, type |-> "invalid_request_error", code |-> "validation_error"]
        ELSE IF error.name = "UnauthorizedError"
        THEN [status |-> 401, type |-> "authentication_error", code |-> "invalid_api_key"]
        ELSE IF error.name = "QueryFailedError"
        THEN [status |-> 400, type |-> "invalid_request_error", code |-> "database_error"]
        ELSE [status |-> statusCode, type |-> type, code |-> code]

\* A slip: the outer catch hands the error on without writing the failure
\* record.
HandleError_NoRecord(error, store) ==
    /\ memoryStore' = store
    /\ IF headersSent
       THEN /\ resState' = "destroyed"
            /\ UNCHANGED httpResponse
       ELSE /\ resState' = "ended"
            /\ httpResponse' = << [status |-> ErrorResponse(error).status,
                                   body |-> ErrorResponse(error)] >>
    /\ nextError' = <<error>>
    /\ pc' = "failed"

\* The outer catch of the handler, then the error middleware.  The failure
\* record is written when the request record exists.  res.status(..).json(..)
\* sends the error body; once the event stream has started (res.write has sent
\* the headers) it throws instead, nothing is written and the connection is
\* torn down without an end of stream.
HandleError(error, store) ==
    /\ memoryStore' =
          IF dbRequest
          THEN createResponse(store, [requestId |-> requestId, finishReason |-> "error",
                                      content |-> <<"error">>, toolCalls |-> <<>>])
          ELSE store
    /\ IF headersSent
       THEN /\ resState' = "destroyed"
            /\ UNCHANGED httpResponse
       ELSE /\ resState' = "ended"
            /\ httpResponse' = << [status |-> ErrorResponse(error).status,
                                   body |-> ErrorResponse(error)] >>
    /\ nextError' = <<error>>
    /\ pc' = "failed"

-----------------------------------------------------------------------------
(* The handler *)

InitRequest ==
    /\ pc = "idle"
    /\ stream = FALSE
    /\ userTools = FALSE
    /\ finalTools = "none"
    /\ conversationMessages = <<>>
    /\ allResponses = <<>>
    /\ toolNamesUsed = <<>>
    /\ totalTokens = [prompt |-> 0, completion |-> 0, total |-> 0]
    /\ dbRequest = FALSE
    /\ memoryStore = [requests |-> <<>>, responses |-> <<>>, tokenUsage |-> <<>>,
                      toolCalls |-> <<>>]
    /\ headersSent = FALSE
    /\ events = <<>>
    /\ httpResponse = <<>>
    /\ resState = "open"
    /\ modelCalls = <<>>
    /\ modelReturns = <<>>
    /\ invokeCalls = <<>>
    /\ invokeReturns = <<>>
    /\ listCalls = 0
    /\ trace = <<>>
    /\ nextError = <<>>
    /\ closedAt = <<>>
    /\ aPc = "idle"
    /\ aMessages = <<>>
    /\ aModelCalls = <<>>
    /\ aInvokeCalls = <<>>
    /\ aTrace = <<>>
    /\ aResult = <<>>
    /\ rPc = "idle"
    /\ rResponses = <<>>
    /\ file = "none"
    /\ uncaught = <<>>
    /\ handlers = [r \in Requests |-> IdleHandler]

\* The server runs with an OpenRouter key (the default, 'sk-or-v1-dummy-key').
Init == InitRequest /\ apiKey = OpenRouterKey

\* A slip: only the first completion is given the tools.
CompletionArgs_ToolsOnce(conversation, tools) ==
    [model |-> ActualModel(model, apiKey), messages |-> conversation,
     tools |-> IF modelCalls = <<>> THEN tools ELSE "none"]

\* The arguments of client.chat.completions.create (chat.ts:186-199).
CompletionArgs(conversation, tools) ==
    [model |-> ActualModel(model, apiKey), messages |-> conversation,
     tools |-> tools]

\* The trace entries of the res.write calls that took the event stream from
\* old to new.
Written(old, new) == [i \in 1..(Len(new) - Len(old)) |-> "write"]

\* A slip: the initial chunk is written after the first completion is asked
\* for.
EnterLoop_WriteAfterCall(st, tools) ==
    /\ finalTools' = tools
    /\ conversationMessages' = messages
    /\ allResponses' = <<>>
    /\ toolNamesUsed' = <<>>
    /\ totalTokens' = [prompt |-> 0, completion |-> 0, total |-> 0]
    /\ headersSent' = st
    /\ events' = IF st THEN <<InitialChunk>> ELSE <<>>
    /\ modelCalls' = Append(modelCalls, CompletionArgs(messages, tools))
    /\ trace' = (trace \o <<"complete">>) \o Written(events, events')
    /\ pc' = "awaitModel"

\* chat.ts:143-199: the conversation state is set up, a streaming response is
\* opened with the initial chunk, and the first completion is asked for.
EnterLoop(st, tools) ==
    /\ finalTools' = tools
    /\ conversationMessages' = messages
    /\ allResponses' = <<>>
    /\ toolNamesUsed' = <<>>
    /\ totalTokens' = [prompt |-> 0, completion |-> 0, total |-> 0]
    /\ headersSent' = st
    /\ events' = IF st THEN <<InitialChunk>> ELSE <<>>
    /\ modelCalls' = Append(modelCalls, CompletionArgs(messages, tools))
    /\ trace' = (trace \o Written(events, events')) \o <<"complete">>
    /\ pc' = "awaitModel"

\* chat.ts:105-138: the request arrives with a valid body; the request record
\* is written; without tools in the body the tools are asked of UnifAI.
ChatCompletions(st, ut) ==
    /\ pc = "idle"
    /\ stream' = st
    /\ userTools' = ut
    /\ dbRequest' = TRUE
    /\ memoryStore' = createRequest(memoryStore,
                          [id |-> requestId, model |-> model, messages |-> messages,
                           tools |-> ut, stream |-> st])
    /\ IF ut
       THEN /\ EnterLoop(st, "userTools")
            /\ UNCHANGED listCalls
       ELSE /\ pc' = "awaitGetTools"
            /\ listCalls' = listCalls + 1
            /\ trace' = Append(trace, "getTools")
            /\ UNCHANGED <<finalTools, conversationMessages, allResponses,
                           toolNamesUsed, totalTokens, headersSent, events,
                           modelCalls>>
    /\ UNCHANGED <<routeVars, handlers, analyzeVars, apiKey, closedAt, httpResponse, resState, modelReturns, invokeCalls, invokeReturns,
                   nextError>>

\* What zod's parse throws: an error named "ZodError" with no statusCode,
\* type or code.
ZodError == [name |-> "ZodError", status |-> 0, statusCode |-> 0, code |-> "",
             type |-> ""]

\* chat.ts:105-107, 427-452: the body fails chatCompletionSchema.parse; the
\* outer catch runs before any record is written or any call is made.
ValidationFails ==
    /\ pc = "idle"
    /\ HandleError(ZodError, memoryStore)
    /\ UNCHANGED <<routeVars, handlers, analyzeVars, apiKey, closedAt, stream, userTools, finalTools, conversationMessages,
                   allResponses, toolNamesUsed, totalTokens, dbRequest,
                   headersSent, events, modelCalls, modelReturns, invokeCalls,
                   invokeReturns, listCalls, trace>>

\* chat.ts:138: getTools returned.
GetToolsReturn ==
    /\ pc = "awaitGetTools"
    /\ EnterLoop(stream, "unifaiTools")
    /\ UNCHANGED <<routeVars, handlers, analyzeVars, apiKey, closedAt, stream, userTools, dbRequest, memoryStore, httpResponse,
                   resState, modelReturns, invokeCalls, invokeReturns, listCalls,
                   nextError>>

\* chat.ts:138: getTools threw (unifai.ts rethrows); the outer catch runs.
GetToolsThrow ==
    /\ pc = "awaitGetTools"
    /\ HandleError(ApiError(0), memoryStore)
    /\ UNCHANGED <<routeVars, handlers, analyzeVars, apiKey, closedAt, stream, userTools, finalTools, conversationMessages,
                   allResponses, toolNamesUsed, totalTokens, dbRequest,
                   headersSent, events, modelCalls, modelReturns, invokeCalls,
                   invokeReturns, listCalls, trace>>

\* chat.ts:203-228: what every returned completion does first.
TurnTokens(response) == AddUsage(totalTokens, response.usage)

TurnResponses(response) ==
    Append(allResponses, [content |-> response.content,
                          toolCalls |-> response.tool_calls,
                          finishReason |-> response.finish_reason])

AssistantMessage(response) ==
    [role |-> "assistant", content |-> response.content,
     tool_calls |-> response.tool_calls, tool_call_id |-> ""]

\* A slip: length > 1, so a turn with a single tool call ends the loop.
HasToolCalls_OffByOne(response) == Len(response.tool_calls) > 1

\* A slip: an iteration cap, the third turn always ends the loop.
HasToolCalls_Capped(response) ==
    Len(response.tool_calls) > 0 /\ Len(allResponses) < 2

\* chat.ts:231-234: does the turn ask for tools
HasToolCalls(response) == Len(response.tool_calls) > 0

\* A slip: the calls of the earlier turns are handed over again.
InvokeBatch_AllSoFar(response) ==
    Flatten([i \in 1..Len(allResponses) |-> allResponses[i].toolCalls])
        \o response.tool_calls

\* chat.ts:248: the batch handed to unifaiService.callTools.
InvokeBatch(response) == response.tool_calls

\* A slip: callTools is not awaited, the next completion is asked for while
\* the tools still run.
ModelReturnsToolCalls_NoAwait(response) ==
    /\ pc = "awaitModel"
    /\ response \in ModelResponses
    /\ HasToolCalls(response)
    /\ modelReturns' = Append(modelReturns, response)
    /\ totalTokens' = TurnTokens(response)
    /\ allResponses' = TurnResponses(response)
    /\ conversationMessages' = Append(conversationMessages, AssistantMessage(response))
    /\ toolNamesUsed' = toolNamesUsed \o ToolNamesOf(response.tool_calls)
    /\ invokeCalls' = Append(invokeCalls, InvokeBatch(response))
    /\ modelCalls' = Append(modelCalls, CompletionArgs(conversationMessages', finalTools))
    /\ trace' = trace \o <<"invoke", "complete">>
    /\ pc' = "awaitTools"
    /\ UNCHANGED <<routeVars, handlers, analyzeVars, apiKey, closedAt, stream, userTools, finalTools, dbRequest, memoryStore,
                   headersSent, events, httpResponse, resState,
                   invokeReturns, listCalls, nextError>>

\* chat.ts:201-250: the completion asks for tools; their names are recorded
\* and the calls of this turn are handed to callTools.
ModelReturnsToolCalls(response) ==
    /\ pc = "awaitModel"
    /\ response \in ModelResponses
    /\ HasToolCalls(response)
    /\ modelReturns' = Append(modelReturns, response)
    /\ totalTokens' = TurnTokens(response)
    /\ allResponses' = TurnResponses(response)
    /\ conversationMessages' = Append(conversationMessages, AssistantMessage(response))
    /\ toolNamesUsed' = toolNamesUsed \o ToolNamesOf(response.tool_calls)
    /\ invokeCalls' = Append(invokeCalls, InvokeBatch(response))
    /\ trace' = Append(trace, "invoke")
    /\ pc' = "awaitTools"
    /\ UNCHANGED <<routeVars, handlers, analyzeVars, apiKey, closedAt, stream, userTools, finalTools, dbRequest, memoryStore,
                   headersSent, events, httpResponse, resState, modelCalls,
                   invokeReturns, listCalls, nextError>>

\* chat.ts:296-313: the events of the last turn.
FinalEvents(response) ==
    IF stream /\ response.content # <<>>
    THEN Append(events, ContentChunk(response.content, response.finish_reason))
    ELSE events

\* chat.ts:201-228, 294-426: the completion asks for no tool; the loop ends,
\* the response and usage records are written and the response is sent.
ModelReturnsFinal(response) ==
    /\ pc = "awaitModel"
    /\ response \in ModelResponses
    /\ ~HasToolCalls(response)
    /\ modelReturns' = Append(modelReturns, response)
    /\ totalTokens' = TurnTokens(response)
    /\ allResponses' = TurnResponses(response)
    /\ conversationMessages' = Append(conversationMessages, AssistantMessage(response))
    /\ LET finalResponse == FinalResponse(allResponses', totalTokens', toolNamesUsed)
       IN  /\ memoryStore' =
                 createTokenUsage(
                     createResponse(memoryStore,
                         [requestId |-> requestId,
                          finishReason |-> finalResponse.finish_reason,
                          content |-> finalResponse.content,
                          toolCalls |-> toolNamesUsed]),
                     [id |-> 0, requestId |-> requestId, model |-> model,
                      promptTokens |-> totalTokens'.prompt,
                      completionTokens |-> totalTokens'.completion,
                      totalTokens |-> totalTokens'.total])
           /\ IF stream
              THEN /\ events' = FinalEvents(response)
                                   \o StreamEnd(finalResponse.finish_reason)
                   /\ UNCHANGED httpResponse
              ELSE /\ httpResponse' = << [status |-> 200, body |-> finalResponse] >>
                   /\ UNCHANGED events
    /\ trace' = trace \o Written(events, events')
    /\ resState' = "ended"
    /\ pc' = "done"
    /\ UNCHANGED <<routeVars, handlers, analyzeVars, apiKey, closedAt, stream, userTools, finalTools, toolNamesUsed, dbRequest,
                   headersSent, modelCalls, invokeCalls, invokeReturns,
                   listCalls, nextError>>

\* chat.ts:203-209: the completion has no choice; the handler throws its own
\* model_error, which passes through catch (apiError) unchanged.
ModelReturnsNoChoice ==
    /\ pc = "awaitModel"
    /\ HandleError(CatchApiError([name |-> "Error", status |-> 0, statusCode |-> 500,
                                  code |-> "model_error", type |-> ""]),
                   memoryStore)
    /\ UNCHANGED <<routeVars, handlers, analyzeVars, apiKey, closedAt, stream, userTools, finalTools, conversationMessages,
                   allResponses, toolNamesUsed, totalTokens, dbRequest,
                   headersSent, events, modelCalls, modelReturns, invokeCalls,
                   invokeReturns, listCalls, trace>>

\* chat.ts:316-334, 427-452: completions.create rejected.
ModelThrows(status) ==
    /\ pc = "awaitModel"
    /\ HandleError(CatchApiError(ApiError(status)), memoryStore)
    /\ UNCHANGED <<routeVars, handlers, analyzeVars, apiKey, closedAt, stream, userTools, finalTools, conversationMessages,
                   allResponses, toolNamesUsed, totalTokens, dbRequest,
                   headersSent, events, modelCalls, modelReturns, invokeCalls,
                   invokeReturns, listCalls, trace>>

\* A slip: to keep the conversation short the oldest message after the
\* user's is dropped when results are added.
AppendResults_Prune(conversation, toolResults) ==
    IF Len(conversation) > 2
    THEN (<<conversation[1]>> \o SubSeq(conversation, 3, Len(conversation)))
             \o toolResults
    ELSE conversation \o toolResults

\* chat.ts:254: the conversation after callTools returned.
AppendResults(conversation, toolResults) == conversation \o toolResults

\* A slip: a failed result among the results aborts the request.
CallToolsReturn_AbortOnFailed(toolResults) ==
    /\ pc = "awaitTools"
    /\ Len(modelCalls) < MaxModelCalls
    /\ toolResults \in InvokeResults(Last(allResponses).toolCalls)
    /\ invokeReturns' = Append(invokeReturns, toolResults)
    /\ IF \E i \in 1..Len(toolResults) : toolResults[i].content = <<"failed">>
       THEN /\ HandleError(ApiError(0), memoryStore)
            /\ UNCHANGED <<conversationMessages, events, modelCalls, trace>>
       ELSE /\ conversationMessages' = AppendResults(conversationMessages, toolResults)
            /\ memoryStore' = RecordToolCalls(memoryStore, Last(allResponses).toolCalls,
                                              toolResults)
            /\ events' = events
            /\ modelCalls' = Append(modelCalls,
                                    CompletionArgs(conversationMessages', finalTools))
            /\ trace' = Append(trace, "complete")
            /\ pc' = "awaitModel"
            /\ UNCHANGED <<httpResponse, resState, nextError>>
    /\ UNCHANGED <<routeVars, handlers, analyzeVars, apiKey, closedAt, stream, userTools, finalTools, allResponses, toolNamesUsed,
                   totalTokens, dbRequest, headersSent, modelReturns, invokeCalls,
                   listCalls>>

\* chat.ts:248-293, 175-199: callTools returned; its results are appended to
\* the conversation, a record is written per call of the turn, a streaming
\* response gets the tool names, and the next completion is asked for.
CallToolsReturn(toolResults) ==
    /\ pc = "awaitTools"
    /\ Len(modelCalls) < MaxModelCalls
    /\ toolResults \in InvokeResults(Last(allResponses).toolCalls)
    /\ invokeReturns' = Append(invokeReturns, toolResults)
    /\ conversationMessages' = AppendResults(conversationMessages, toolResults)
    /\ memoryStore' = RecordToolCalls(memoryStore, Last(allResponses).toolCalls, toolResults)
    /\ events' = IF stream
                 THEN Append(events, ToolChunk(ToolNamesOf(Last(allResponses).toolCalls)))
                 ELSE events
    /\ modelCalls' = Append(modelCalls, CompletionArgs(conversationMessages', finalTools))
    /\ trace' = (trace \o Written(events, events')) \o <<"complete">>
    /\ pc' = "awaitModel"
    /\ UNCHANGED <<routeVars, handlers, analyzeVars, apiKey, closedAt, stream, userTools, finalTools, allResponses, toolNamesUsed,
                   totalTokens, dbRequest, headersSent, httpResponse, resState,
                   modelReturns, invokeCalls, listCalls, nextError>>

\* chat.ts:248, 316-334, 427-452: callTools threw (unifai.ts rethrows) inside
\* the same try block as the completion.
CallToolsThrows(status) ==
    /\ pc = "awaitTools"
    /\ HandleError(CatchApiError(ApiError(status)), memoryStore)
    /\ UNCHANGED <<routeVars, handlers, analyzeVars, apiKey, closedAt, stream, userTools, finalTools, conversationMessages,
                   allResponses, toolNamesUsed, totalTokens, dbRequest,
                   headersSent, events, modelCalls, modelReturns, invokeCalls,
                   invokeReturns, listCalls, trace>>

Next ==
    \/ \E st \in BOOLEAN, ut \in BOOLEAN : ChatCompletions(st, ut)
    \/ ValidationFails
    \/ GetToolsReturn
    \/ GetToolsThrow
    \/ \E response \in ModelResponses : ModelReturnsToolCalls(response)
    \/ \E response \in ModelResponses : ModelReturnsFinal(response)
    \/ ModelReturnsNoChoice
    \/ \E status \in ErrorStatuses : ModelThrows(status)
    \/ \E toolCalls \in ToolCallBatches :
          \E toolResults \in InvokeResults(toolCalls) : CallToolsReturn(toolResults)
    \/ \E status \in {0, 401} : CallToolsThrows(status)

Spec == Init /\ [][Next]_vars

\* What a rejected save throws: the database error errorHandler knows.
QueryFailedError == [name |-> "QueryFailedError", status |-> 0, statusCode |-> 0,
                     code |-> "", type |-> ""]

\* chat.ts:120-127, 427-452: createRequest rejects; dbRequest stays unset.
CreateRequestFails ==
    /\ pc = "idle"
    /\ HandleError(QueryFailedError, memoryStore)
    /\ UNCHANGED <<routeVars, handlers, analyzeVars, apiKey, closedAt, stream, userTools, finalTools, conversationMessages,
                   allResponses, toolNamesUsed, totalTokens, dbRequest,
                   headersSent, events, modelCalls, modelReturns, invokeCalls,
                   invokeReturns, listCalls, trace>>

\* chat.ts:248-269, 427-452: callTools returned and its results were pushed;
\* the first createToolCall rejects, before the tool chunk is written.
CreateToolCallFails(toolResults) ==
    /\ pc = "awaitTools"
    /\ toolResults \in InvokeResults(Last(allResponses).toolCalls)
    /\ invokeReturns' = Append(invokeReturns, toolResults)
    /\ conversationMessages' = AppendResults(conversationMessages, toolResults)
    /\ HandleError(QueryFailedError, memoryStore)
    /\ UNCHANGED <<routeVars, handlers, analyzeVars, apiKey, closedAt, stream, userTools, finalTools, allResponses,
                   toolNamesUsed, totalTokens, dbRequest, headersSent, events,
                   modelCalls, modelReturns, invokeCalls, listCalls, trace>>

\* chat.ts:294-394, 427-452: the loop ended, in stream mode the content chunk
\* is out; createResponse rejects (usageFails = FALSE), or it writes the
\* success record and createTokenUsage rejects (usageFails = TRUE).
FinalRecordFails(response, usageFails) ==
    /\ pc = "awaitModel"
    /\ response \in ModelResponses
    /\ ~HasToolCalls(response)
    /\ modelReturns' = Append(modelReturns, response)
    /\ totalTokens' = TurnTokens(response)
    /\ allResponses' = TurnResponses(response)
    /\ conversationMessages' = Append(conversationMessages, AssistantMessage(response))
    /\ events' = FinalEvents(response)
    /\ trace' = trace \o Written(events, events')
    /\ LET finalResponse == FinalResponse(allResponses', totalTokens', toolNamesUsed)
       IN  HandleError(QueryFailedError,
                       IF usageFails
                       THEN createResponse(memoryStore,
                                [requestId |-> requestId,
                                 finishReason |-> finalResponse.finish_reason,
                                 content |-> finalResponse.content,
                                 toolCalls |-> toolNamesUsed])
                       ELSE memoryStore)
    /\ UNCHANGED <<routeVars, handlers, analyzeVars, apiKey, closedAt, stream, userTools, finalTools, toolNamesUsed, dbRequest,
                   headersSent, modelCalls, invokeCalls, invokeReturns,
                   listCalls>>

NextOrSaveFails ==
    \/ Next
    \/ CreateRequestFails
    \/ \E toolCalls \in ToolCallBatches :
          \E toolResults \in InvokeResults(toolCalls) : CreateToolCallFails(toolResults)
    \/ \E response \in ModelResponses, usageFails \in BOOLEAN :
          FinalRecordFails(response, usageFails)

\* The handler over a store whose save may reject.
PersistSpec == Init /\ [][NextOrSaveFails]_vars

\* The server runs with either kind of key.
InitKey == InitRequest /\ apiKey \in {OpenRouterKey, AnthropicKey}

KeySpec == InitKey /\ [][Next]_vars

\* chat.ts:99-101: the client closes the connection while the handler awaits
\* a call of the loop.  The handler registers no listener on req or res and reads no
\* state of the connection, so nothing of its state changes.
ClientCloses ==
    /\ pc \in {"awaitModel", "awaitTools"}
    /\ closedAt = <<>>
    /\ closedAt' = << Len(trace) >>
    /\ UNCHANGED <<routeVars, handlers, analyzeVars, apiKey, pc, stream, userTools, finalTools, conversationMessages,
                   allResponses, toolNamesUsed, totalTokens, dbRequest,
                   memoryStore, headersSent, events, httpResponse, resState,
                   modelCalls, modelReturns, invokeCalls, invokeReturns,
                   listCalls, trace, nextError>>

NextOrClose == Next \/ ClientCloses

\* The handler with a client that may go away.
CancelSpec == Init /\ [][NextOrClose]_vars

-----------------------------------------------------------------------------
(* Two chat requests at once.  Node runs one handler at a time and switches *)
(* between handlers only at an await, so the steps of a request are those  *)
(* of the single request above; the requests here are non-streaming and    *)
(* carry their tools.  The locals of a handler are let/const of its call   *)
(* (chat.ts:102-147); memoryStore is the one object the handlers share.    *)

\* req.body.messages of request r.
messagesOf(r) == << [role |-> "user", content |-> <<"hi", r>>, tool_calls |-> <<>>,
                     tool_call_id |-> ""] >>

\* What the model returns to the concurrent requests.
ConcToolResponses ==
    { rsp \in ToolCallResponses : rsp.content # <<>> }
ConcFinalResponses ==
    { rsp \in FinalResponses : rsp.content # <<>> /\ rsp.finish_reason = "stop" }

\* What callTools returns to them: a result per call, or nothing.
ConcResults(toolCalls) == { FullResults(toolCalls), <<>> }

\* A slip: toolNamesUsed is declared at module level, one array for all
\* requests.
OwnState_ModuleLevel(hs, r, new) ==
    [q \in DOMAIN hs |->
        IF q = r THEN new ELSE [hs[q] EXCEPT !.toolNamesUsed = new.toolNamesUsed]]

\* chat.ts:102-147: the locals belong to the call of the handler: a step of
\* request r changes those of r only.
OwnState(hs, r, new) == [hs EXCEPT ![r] = new]

\* chat.ts:257-269 for request r (requestId is its own uuid).
RECURSIVE RecordToolCallsOf(_, _, _, _)
RecordToolCallsOf(store, r, toolCalls, toolResults) ==
    IF toolCalls = <<>> THEN store
    ELSE RecordToolCallsOf(
             createToolCall(store, [ToolCallRecord(Head(toolCalls), toolResults)
                                       EXCEPT !.requestId = r]),
             r, Tail(toolCalls), toolResults)

\* chat.ts:105-199: request r arrives; its request record is written and
\* its first completion asked for.
ConcArrives(r) ==
    /\ handlers[r].pc = "idle"
    /\ memoryStore' = createRequest(memoryStore,
                          [id |-> r, model |-> model, messages |-> messagesOf(r),
                           tools |-> TRUE, stream |-> FALSE])
    /\ handlers' = OwnState(handlers, r,
                       [IdleHandler EXCEPT !.pc = "awaitModel",
                                           !.conversationMessages = messagesOf(r)])
    /\ UNCHANGED <<localVars, analyzeVars, routeVars>>

\* chat.ts:201-250: a completion of request r asks for tools.
ConcModelReturnsToolCalls(r, response) ==
    LET h == handlers[r]
    IN  /\ h.pc = "awaitModel"
        /\ response \in ConcToolResponses
        /\ Len(h.invokeReturns) < MaxToolTurns
        /\ handlers' = OwnState(handlers, r,
              [h EXCEPT !.pc = "awaitTools",
                        !.modelReturns = Append(@, response),
                        !.totalTokens = AddUsage(@, response.usage),
                        !.allResponses =
                            Append(@, [content |-> response.content,
                                       toolCalls |-> response.tool_calls,
                                       finishReason |-> response.finish_reason]),
                        !.conversationMessages = Append(@, AssistantMessage(response)),
                        !.toolNamesUsed = @ \o ToolNamesOf(response.tool_calls)])
        /\ UNCHANGED <<localVars, memoryStore, analyzeVars, routeVars>>

\* chat.ts:248-293: callTools of request r returned.
ConcCallToolsReturn(r, toolResults) ==
    LET h == handlers[r]
    IN  /\ h.pc = "awaitTools"
        /\ toolResults \in ConcResults(Last(h.allResponses).toolCalls)
        /\ memoryStore' = RecordToolCallsOf(memoryStore, r,
                                            Last(h.allResponses).toolCalls, toolResults)
        /\ handlers' = OwnState(handlers, r,
              [h EXCEPT !.pc = "awaitModel",
                        !.invokeReturns = Append(@, toolResults),
                        !.conversationMessages = AppendResults(@, toolResults)])
        /\ UNCHANGED <<localVars, analyzeVars, routeVars>>

\* chat.ts:294-426: a completion of request r asks for no tool; its records
\* are written and its response is sent.
ConcModelReturnsFinal(r, response) ==
    LET h == handlers[r]
        tokens == AddUsage(h.totalTokens, response.usage)
        responses == Append(h.allResponses,
                            [content |-> response.content,
                             toolCalls |-> response.tool_calls,
                             finishReason |-> response.finish_reason])
        finalResponse == [FinalResponse(responses, tokens, h.toolNamesUsed)
                             EXCEPT !.id = r]
    IN  /\ h.pc = "awaitModel"
        /\ response \in ConcFinalResponses
        /\ memoryStore' =
              createTokenUsage(
                  createResponse(memoryStore,
                      [requestId |-> r, finishReason |-> finalResponse.finish_reason,
                       content |-> finalResponse.content,
                       toolCalls |-> h.toolNamesUsed]),
                  [id |-> 0, requestId |-> r, model |-> model,
                   promptTokens |-> tokens.prompt,
                   completionTokens |-> tokens.completion,
                   totalTokens |-> tokens.total])
        /\ handlers' = OwnState(handlers, r,
              [h EXCEPT !.pc = "done",
                        !.modelReturns = Append(@, response),
                        !.totalTokens = tokens,
                        !.allResponses = responses,
                        !.conversationMessages = Append(@, AssistantMessage(response)),
                        !.response = <<finalResponse>>])
        /\ UNCHANGED <<localVars, analyzeVars, routeVars>>

\* chat.ts:316-334, 427-452: a call of request r rejects; its failure record
\* is written.
ConcThrows(r) ==
    LET h == handlers[r]
    IN  /\ h.pc \in {"awaitModel", "awaitTools"}
        /\ memoryStore' = createResponse(memoryStore,
                              [requestId |-> r, finishReason |-> "error",
                               content |-> <<"error">>, toolCalls |-> <<>>])
        /\ handlers' = OwnState(handlers, r, [h EXCEPT !.pc = "failed"])
        /\ UNCHANGED <<localVars, analyzeVars, routeVars>>

NextConcurrent ==
    \E r \in Requests :
        \/ ConcArrives(r)
        \/ \E response \in ConcToolResponses : ConcModelReturnsToolCalls(r, response)
        \/ \E toolCalls \in ToolCallBatches :
              \E toolResults \in ConcResults(toolCalls) :
                  ConcCallToolsReturn(r, toolResults)
        \/ \E response \in ConcFinalResponses : ConcModelReturnsFinal(r, response)
        \/ ConcThrows(r)

\* Two chat requests, their steps interleaved at the awaits.
ConcSpec == Init /\ [][NextConcurrent]_vars

-----------------------------------------------------------------------------
(* The analysis loop: runCryptoTokenAnalysis of POST /analyze              *)
(* (routes/tokenAnalysis.ts, in src/unnamed/part_001)                       *)

\* tokenAnalysis.ts:74-77: the system prompt and the caller's query.
analysisMessages ==
    << [role |-> "system", content |-> <<"prompt">>, tool_calls |-> <<>>,
        tool_call_id |-> ""],
       [role |-> "user", content |-> <<"query">>, tool_calls |-> <<>>,
        tool_call_id |-> ""] >>

\* tokenAnalysis.ts:91-95: the model name given to the upstream.
analysisModel ==
    IF StartsWith(apiKey, "sk-ant-") THEN <<"claude">> ELSE <<"anthropic/", "claude">>

\* tokenAnalysis.ts:97-101
AnalysisArgs(conversation) ==
    [model |-> analysisModel, messages |-> conversation, tools |-> "unifaiTools"]

\* tokenAnalysis.ts:135: the text returned when the last message has none.
NoContent == <<"no content">>

\* A slip: the content of the last message is returned as it is.
ReturnValue_NoFallback(conversation) == Last(conversation).content

\* tokenAnalysis.ts:135: messages[messages.length - 1]?.content || the fixed
\* text (the array is never empty: it starts with two messages).
ReturnValue(conversation) ==
    IF Last(conversation).content # <<>> THEN Last(conversation).content ELSE NoContent

\* tokenAnalysis.ts:17-84: the function is called; it asks UnifAI for tools.
AnalyzeStart ==
    /\ aPc = "idle"
    /\ aMessages' = analysisMessages
    /\ aTrace' = Append(aTrace, "getTools")
    /\ aPc' = "awaitGetTools"
    /\ UNCHANGED <<routeVars, handlers, localVars, memoryStore, aModelCalls, aInvokeCalls,
                   aResult>>

\* tokenAnalysis.ts:80-101: getTools returned; the first completion is asked
\* for.
AnalyzeGetToolsReturn ==
    /\ aPc = "awaitGetTools"
    /\ aModelCalls' = Append(aModelCalls, AnalysisArgs(aMessages))
    /\ aTrace' = Append(aTrace, "complete")
    /\ aPc' = "awaitModel"
    /\ UNCHANGED <<routeVars, handlers, localVars, memoryStore, aMessages, aInvokeCalls,
                   aResult>>

\* tokenAnalysis.ts:103-124, 135: the completion returned; its message is
\* pushed; without tool calls the loop ends and the function returns, with
\* tool calls they go to callTools.
AnalyzeModelReturns(response) ==
    /\ aPc = "awaitModel"
    /\ response \in ModelResponses
    /\ aMessages' = Append(aMessages, AssistantMessage(response))
    /\ IF response.tool_calls = <<>>
       THEN /\ aPc' = "done"
            /\ aResult' = <<ReturnValue(aMessages')>>
            /\ UNCHANGED <<aInvokeCalls, aTrace>>
       ELSE /\ aInvokeCalls' = Append(aInvokeCalls, response.tool_calls)
            /\ aTrace' = Append(aTrace, "invoke")
            /\ aPc' = "awaitTools"
            /\ UNCHANGED aResult
    /\ UNCHANGED <<routeVars, handlers, localVars, memoryStore, aModelCalls>>

\* tokenAnalysis.ts:124-135, 89-101: callTools returned; without results the
\* loop ends and the function returns, else they are pushed and the next
\* completion is asked for.
AnalyzeCallToolsReturn(results) ==
    /\ aPc = "awaitTools"
    /\ results \in InvokeResults(Last(aInvokeCalls))
    /\ IF results = <<>>
       THEN /\ aPc' = "done"
            /\ aResult' = <<ReturnValue(aMessages)>>
            /\ UNCHANGED <<aMessages, aModelCalls, aTrace>>
       ELSE /\ Len(aModelCalls) < MaxModelCalls
            /\ aMessages' = aMessages \o results
            /\ aModelCalls' = Append(aModelCalls, AnalysisArgs(aMessages'))
            /\ aTrace' = Append(aTrace, "complete")
            /\ aPc' = "awaitModel"
            /\ UNCHANGED aResult
    /\ UNCHANGED <<routeVars, handlers, localVars, memoryStore, aInvokeCalls>>

\* tokenAnalysis.ts:80, 97, 103, 124: getTools, completions.create or
\* callTools rejects, or the completion has no choice (choices[0] is
\* undefined): the function throws.
AnalyzeThrows ==
    /\ aPc \in {"awaitGetTools", "awaitModel", "awaitTools"}
    /\ aPc' = "failed"
    /\ UNCHANGED <<routeVars, handlers, localVars, memoryStore, aMessages, aModelCalls, aInvokeCalls,
                   aTrace, aResult>>

NextAnalyze ==
    \/ AnalyzeStart
    \/ AnalyzeGetToolsReturn
    \/ \E response \in ModelResponses : AnalyzeModelReturns(response)
    \/ \E toolCalls \in ToolCallBatches :
          \E results \in InvokeResults(toolCalls) : AnalyzeCallToolsReturn(results)
    \/ AnalyzeThrows

\* One run of the analysis loop.
AnalyzeSpec == Init /\ [][NextAnalyze]_vars

\* The number of completions that have returned to the analysis loop, and of
\* callTools calls that have.
aModelReturned == Len(aModelCalls) - (IF aPc = "awaitModel" THEN 1 ELSE 0)
aInvokeReturned == Len(aInvokeCalls) - (IF aPc = "awaitTools" THEN 1 ELSE 0)

\* The analysis loop is given the responses the chat loop was given: its
\* i-th completion returns what the chat loop's i-th returned, its j-th
\* callTools what the chat loop's j-th returned.
AnalyzeReplays ==
    \/ AnalyzeStart
    \/ AnalyzeGetToolsReturn
    \/ /\ aPc = "awaitModel"
       /\ aModelReturned < Len(modelReturns)
       /\ AnalyzeModelReturns(modelReturns[aModelReturned + 1])
    \/ /\ aPc = "awaitTools"
       /\ aInvokeReturned < Len(invokeReturns)
       /\ AnalyzeCallToolsReturn(invokeReturns[aInvokeReturned + 1])

NextBoth == Next \/ AnalyzeReplays

\* The chat loop and the analysis loop on the same responses.
BothSpec == Init /\ [][NextBoth]_vars

-----------------------------------------------------------------------------
(* POST /analyze (tokenAnalysis.ts:141-207), one request                   *)

\* res.json(body) / res.status(s).json(body): the response is sent when
\* none was; once one is out the headers cannot be set again and the call
\* throws.
CanSend == rResponses = <<>>

\* tokenAnalysis.ts:142-160: the request arrives; without a query it is
\* answered 400, else the analysis is started.
AnalyzeRequest(hasQuery) ==
    /\ rPc = "idle"
    /\ IF hasQuery
       THEN /\ rPc' = "analysing"
            /\ UNCHANGED rResponses
       ELSE /\ rPc' = "done"
            /\ rResponses' = Append(rResponses, [status |-> 400, success |-> FALSE])
    /\ UNCHANGED <<handlers, localVars, memoryStore, analyzeVars, file, uncaught>>

\* tokenAnalysis.ts:157-160: the handler awaits runCryptoTokenAnalysis.
Analysing ==
    /\ rPc = "analysing"
    /\ NextAnalyze

\* tokenAnalysis.ts:163-198: the analysis returned; the request record is
\* written, fs.writeFile is started, and without waiting for it the success
\* response is sent.
AnalysisReturns ==
    /\ rPc = "analysing"
    /\ aPc = "done"
    /\ memoryStore' = createRequest(memoryStore,
                          [id |-> "crypto-token-analysis", model |-> model,
                           messages |-> <<analysisMessages[2]>>,
                           tools |-> FALSE, stream |-> FALSE])
    /\ file' = "writing"
    /\ rResponses' = Append(rResponses, [status |-> 200, success |-> TRUE])
    /\ rPc' = "responded"
    /\ UNCHANGED <<handlers, localVars, analyzeVars, uncaught>>

\* tokenAnalysis.ts:200-206: the analysis threw; the catch answers 500.
AnalysisThrows ==
    /\ rPc = "analysing"
    /\ aPc = "failed"
    /\ rResponses' = Append(rResponses, [status |-> 500, success |-> FALSE])
    /\ rPc' = "done"
    /\ UNCHANGED <<handlers, localVars, memoryStore, analyzeVars, file, uncaught>>

\* tokenAnalysis.ts:180-189: the callback of fs.writeFile.  With an error it
\* calls res.status(500).json(..), which sends the response or, one being
\* out already, throws out of the callback.
WriteFileCallback(err) ==
    /\ file = "writing"
    /\ file' = IF err THEN "failed" ELSE "written"
    /\ IF err
       THEN IF CanSend
            THEN /\ rResponses' = Append(rResponses, [status |-> 500, success |-> FALSE])
                 /\ UNCHANGED uncaught
            ELSE /\ uncaught' = Append(uncaught, "ERR_HTTP_HEADERS_SENT")
                 /\ UNCHANGED rResponses
       ELSE UNCHANGED <<rResponses, uncaught>>
    /\ rPc' = "done"
    /\ UNCHANGED <<handlers, localVars, memoryStore, analyzeVars>>

NextRoute ==
    \/ \E hasQuery \in BOOLEAN : AnalyzeRequest(hasQuery)
    \/ Analysing
    \/ AnalysisReturns
    \/ AnalysisThrows
    \/ \E err \in BOOLEAN : WriteFileCallback(err)

\* One request to POST /analyze.
RouteSpec == Init /\ [][NextRoute]_vars

-----------------------------------------------------------------------------
(* Properties of the tool-call loop *)

IsAssistant(message) == message.role = "assistant"
IsToolResult(message) == message.role = "tool"

\* Index of the assistant message of the turn that message i belongs to
\* (0: before the first turn).
TurnOf(conversation, i) ==
    IF \E p \in 1..i : IsAssistant(conversation[p])
    THEN CHOOSE p \in 1..i :
            /\ IsAssistant(conversation[p])
            /\ \A q \in (p + 1)..i : ~IsAssistant(conversation[q])
    ELSE 0

\* Every tool call of every assistant message has a result with its id among
\* the tool messages of its own turn.
Resolved(conversation) ==
    \A p \in 1..Len(conversation) :
        IsAssistant(conversation[p]) =>
            \A c \in 1..Len(conversation[p].tool_calls) :
                \E i \in (p + 1)..Len(conversation) :
                    /\ IsToolResult(conversation[i])
                    /\ TurnOf(conversation, i) = p
                    /\ conversation[i].tool_call_id = conversation[p].tool_calls[c].id

\* C1: every conversation handed to the model has a result, with the same
\* tool_call_id, for each tool call of each earlier assistant message; no
\* conversation with an unresolved tool call is submitted.
C1_NoUnresolvedSubmitted ==
    \A n \in 1..Len(modelCalls) : Resolved(modelCalls[n].messages)

\* The turns in which the model asked for tools, in order.
ToolTurns == SelectSeq(modelReturns, LAMBDA r : r.tool_calls # <<>>)

\* C2: a run that ends normally after the model asked for tools in its turns
\* 1..k and for none in turn k+1 has made exactly k+1 completions and exactly
\* k callTools calls (k = 0: one completion, no callTools).
C2_CallCounts ==
    pc = "done" =>
        LET k == Len(ToolTurns)
        IN  /\ Len(modelReturns) = k + 1
            /\ \A i \in 1..k : modelReturns[i].tool_calls # <<>>
            /\ modelReturns[k + 1].tool_calls = <<>>
            /\ Len(modelCalls) = k + 1
            /\ Len(invokeCalls) = k
            /\ Len(invokeReturns) = k

C2_Witness ==
    /\ pc = "done"
    /\ Len(ToolTurns) = MaxModelCalls - 1
    /\ Len(modelCalls) = MaxModelCalls

\* The usage the model reported over all its returned completions.
ReportedUsage ==
    [prompt_tokens |->
        SumSeq([i \in 1..Len(modelReturns) |-> modelReturns[i].usage.prompt_tokens]),
     completion_tokens |->
        SumSeq([i \in 1..Len(modelReturns) |-> modelReturns[i].usage.completion_tokens]),
     total_tokens |->
        SumSeq([i \in 1..Len(modelReturns) |-> modelReturns[i].usage.total_tokens])]

UsageAtEnd ==
    pc = "done" =>
        /\ totalTokens.prompt = ReportedUsage.prompt_tokens
        /\ totalTokens.completion = ReportedUsage.completion_tokens
        /\ totalTokens.total = ReportedUsage.total_tokens
        /\ ~stream => httpResponse[1].body.usage = ReportedUsage
        /\ Last(memoryStore.tokenUsage).promptTokens = ReportedUsage.prompt_tokens
        /\ Last(memoryStore.tokenUsage).completionTokens = ReportedUsage.completion_tokens
        /\ Last(memoryStore.tokenUsage).totalTokens = ReportedUsage.total_tokens

UsageNeverDecreases ==
    /\ totalTokens'.prompt >= totalTokens.prompt
    /\ totalTokens'.completion >= totalTokens.completion
    /\ totalTokens'.total >= totalTokens.total

\* C3: when the loop has ended, the usage of the response (and of the usage
\* record) is the component-wise sum of the usage of every completion of the
\* run, a completion without usage adding nothing; and the running totals
\* never decrease.
C3_UsageIsSum == []UsageAtEnd /\ [][UsageNeverDecreases]_vars

C3_Witness ==
    /\ pc = "done"
    /\ Len(modelReturns) = MaxModelCalls
    /\ ~Last(modelReturns).usage.has
    /\ totalTokens.total = 3 * (MaxModelCalls - 1)

\* C4: once callTools has returned an empty array for a batch, the loop is
\* over without another completion, and the response's finish reason is not
\* "stop".
C4_EmptyInvokeEndsLoop ==
    \A j \in 1..Len(invokeReturns) :
        invokeReturns[j] = <<>> =>
            /\ Len(modelCalls) = j
            /\ pc = "done"
            /\ FinalResponse(allResponses, totalTokens, toolNamesUsed).finish_reason # "stop"

\* C5: every tool message of the conversation carries the id of a tool call
\* of the assistant message of its turn.
C5_NoOrphanResults ==
    \A i \in 1..Len(conversationMessages) :
        IsToolResult(conversationMessages[i]) =>
            LET p == TurnOf(conversationMessages, i)
            IN  /\ p > 0
                /\ \E c \in 1..Len(conversationMessages[p].tool_calls) :
                      conversationMessages[p].tool_calls[c].id
                          = conversationMessages[i].tool_call_id

\* C6: the j-th batch handed to callTools is exactly the tool calls of the
\* j-th turn that asked for tools: every tool call is submitted once, right
\* after its own turn, and is in no later batch.
C6_SubmittedOnce ==
    /\ Len(invokeCalls) = Len(ToolTurns)
    /\ \A j \in 1..Len(invokeCalls) : invokeCalls[j] = ToolTurns[j].tool_calls

C6_Witness ==
    /\ Len(invokeCalls) = MaxModelCalls
    /\ invokeCalls[1] # invokeCalls[2]

\* What the event stream delivers of the model's text: the content of the
\* chunks that carry model output (the tool annotations are not counted).
StreamedContent ==
    Flatten([i \in 1..Len(events) |->
                IF events[i].kind \in {"initial", "content"}
                THEN events[i].content ELSE <<>>])

\* What the non-streaming handler sends for the same completions and results:
\* the loop reads the stream flag only where it writes to the response.
JsonResponse == FinalResponse(allResponses, totalTokens, toolNamesUsed)

\* The record of the normal end of the request.
SuccessRecords ==
    SelectSeq(memoryStore.responses, LAMBDA r : r.finishReason # "error")

\* C7: a streaming run delivers the same assistant content and the same
\* tools_used as the non-streaming run on the same completions and results.
C7_StreamEqualsJson ==
    /\ pc = "done" /\ stream =>
          /\ StreamedContent = JsonResponse.content
          /\ Last(SuccessRecords).toolCalls = JsonResponse.tools_used
    /\ pc = "done" /\ ~stream =>
          httpResponse = << [status |-> 200, body |-> JsonResponse] >>

\* The request has ended normally and its response has been sent whole.
ResponseSent ==
    /\ pc = "done"
    /\ resState = "ended"
    /\ IF stream
       THEN httpResponse = <<>> /\ Last(events) = DoneSentinel
       ELSE Len(httpResponse) = 1 /\ httpResponse[1].status = 200

\* The assistant message of the last turn asks for no tool, ends the
\* conversation, and its text ends the response.
LastTurnIsAnswer ==
    LET answer == Last(conversationMessages)
    IN  /\ IsAssistant(answer)
        /\ answer.tool_calls = <<>>
        /\ answer.content = Last(modelReturns).content
        /\ IF stream
           THEN answer.content # <<>> =>
                   \E i \in 1..Len(events) :
                       events[i] = ContentChunk(answer.content,
                                                Last(modelReturns).finish_reason)
           ELSE /\ Len(httpResponse[1].body.content) >= Len(answer.content)
                /\ SubSeq(httpResponse[1].body.content,
                          Len(httpResponse[1].body.content) - Len(answer.content) + 1,
                          Len(httpResponse[1].body.content)) = answer.content
                /\ httpResponse[1].body.finish_reason = Last(modelReturns).finish_reason

\* The runs in which every call returns and the model has stopped asking for
\* tools by its MaxModelCalls-th completion.
NextReturning ==
    \/ \E st \in BOOLEAN, ut \in BOOLEAN : ChatCompletions(st, ut)
    \/ GetToolsReturn
    \/ \E response \in ModelResponses :
          Len(modelCalls) < MaxModelCalls /\ ModelReturnsToolCalls(response)
    \/ \E response \in ModelResponses : ModelReturnsFinal(response)
    \/ \E toolCalls \in ToolCallBatches :
          \E toolResults \in InvokeResults(toolCalls) : CallToolsReturn(toolResults)

\* The handler is resumed whenever the call it awaits has returned.
LiveSpec == Init /\ [][NextReturning]_vars /\ WF_vars(NextReturning)

\* C8: when every call returns and the model comes to a turn without tool
\* calls, the loop ends, the response is sent, and the assistant message of
\* that turn is the answer.
C8_Terminates == <>(ResponseSent /\ LastTurnIsAnswer)

C8_Witness ==
    /\ ResponseSent
    /\ LastTurnIsAnswer
    /\ Len(modelCalls) = MaxModelCalls
    /\ \E j \in 1..Len(invokeReturns) : invokeReturns[j] = <<>>

\* No call has failed, every turn so far asked for a tool and every callTools
\* call that returned gave at least one result.
ToolsAllTheWay ==
    /\ pc \in {"awaitModel", "awaitTools", "done"}
    /\ \A i \in 1..Len(modelReturns) : modelReturns[i].tool_calls # <<>>
    /\ \A j \in 1..Len(invokeReturns) : invokeReturns[j] # <<>>

\* C9: the loop has no iteration cap: while every turn asks for a tool and
\* callTools gives results, the loop is not over, whatever the number of
\* turns: every returned callTools call has been followed by a completion.
C9_NoIterationCap ==
    ToolsAllTheWay =>
        /\ pc # "done"
        /\ Len(modelCalls) = Len(invokeReturns) + 1
        /\ Len(invokeCalls) = Len(modelReturns)

C9_Witness ==
    /\ ToolsAllTheWay
    /\ Len(modelCalls) = MaxModelCalls
    /\ Len(modelReturns) = MaxModelCalls
    /\ pc = "awaitTools"

\* completions.create was rejected: the handler failed while it awaited a
\* completion, and not with its own model_error.
ModelFailed ==
    /\ pc = "failed"
    /\ trace # <<>>
    /\ Last(trace) = "complete"
    /\ nextError[1].code # "model_error"

\* C10: after a failed completion no further call is made, the request ends
\* with an error response, and neither a success response record nor a usage
\* record is stored.
C10_ModelFailureAborts ==
    /\ ModelFailed =>
          /\ Len(httpResponse) = 1
          /\ httpResponse[1].status >= 400
          /\ resState = "ended"
          /\ SuccessRecords = <<>>
          /\ memoryStore.tokenUsage = <<>>
    /\ pc = "failed" => ~ENABLED Next

\* callTools returned a failed result in its j-th call.
HasFailedResult(j) ==
    \E i \in 1..Len(invokeReturns[j]) : invokeReturns[j][i].content = <<"failed">>

\* C11: whatever callTools returns, failed results included, is appended to
\* the conversation after the assistant message of its turn and the next
\* completion is asked for with it; the request fails while it awaits
\* callTools only when that call threw (it has not returned).
C11_FailedResultAbsorbed ==
    /\ \A j \in 1..Len(invokeReturns) :
          /\ Len(modelCalls) >= j + 1
          /\ modelCalls[j + 1].messages =
                 modelCalls[j].messages \o << AssistantMessage(ToolTurns[j]) >>
                                        \o invokeReturns[j]
    /\ pc = "failed" /\ trace # <<>> /\ Last(trace) = "invoke" =>
          Len(invokeReturns) = Len(invokeCalls) - 1

C11_Witness ==
    /\ pc = "done"
    /\ Len(invokeReturns) = MaxModelCalls - 1
    /\ HasFailedResult(1)
    /\ Len(invokeReturns[1]) = 2

\* The request was rejected by the validation of its body.
ValidationFailed == nextError # <<>> /\ nextError[1].name = "ZodError"

\* C12: a request whose body fails validation is answered with status 400
\* and type "invalid_request_error"; no record is written and no call to the
\* model or to UnifAI is made.
C12_InvalidBodyIs400 ==
    ValidationFailed =>
        /\ httpResponse # <<>>
        /\ httpResponse[1].status = 400
        /\ httpResponse[1].body.type = "invalid_request_error"
        /\ memoryStore.requests = <<>>
        /\ memoryStore.responses = <<>>
        /\ trace = <<>>

\* A completion was rejected with status 401.
ModelRejected401 ==
    /\ nextError # <<>>
    /\ nextError[1].code = "auth_error"
    /\ Last(trace) = "complete"

\* C13: a completion rejected with status 401 is answered with status 401
\* and code "auth_error", in stream mode as in non-stream mode, and neither
\* a success record nor a usage record is written.
C13_AuthFailureIs401 ==
    ModelRejected401 =>
        /\ httpResponse # <<>>
        /\ httpResponse[1].status = 401
        /\ httpResponse[1].body.code = "auth_error"
        /\ \A i \in 1..Len(memoryStore.responses) :
              memoryStore.responses[i].finishReason = "error"
        /\ memoryStore.tokenUsage = <<>>

\* A save of the store was rejected.
SaveFailed == nextError # <<>> /\ nextError[1].name = "QueryFailedError"

\* C14: a rejected audit write (request, tool-call, response or usage
\* record) does not abort the request: the write's error never takes the
\* handler to its failure path, and the client gets the normal response.
C14_AuditIsBestEffort ==
    SaveFailed => pc # "failed" /\ resState # "destroyed"

\* The record of the failed end of the request.
FailureRecords ==
    SelectSeq(memoryStore.responses, LAMBDA r : r.finishReason = "error")

\* C15: a request that passed validation (its request record is written) has
\* at its normal end exactly one success record and one usage record and no
\* failure record, at its failed end exactly one failure record and neither
\* success nor usage record, and before its end no response record at all; a
\* request that did not pass validation has none.
C15_OneOutcomeRecord ==
    LET counts == << Len(SuccessRecords), Len(memoryStore.tokenUsage),
                     Len(FailureRecords) >>
    IN  /\ dbRequest /\ pc = "done" => counts = <<1, 1, 0>>
        /\ dbRequest /\ pc = "failed" => counts = <<0, 0, 1>>
        /\ ~dbRequest \/ pc \notin {"done", "failed"} => counts = <<0, 0, 0>>

C15_Witness ==
    /\ pc = "failed"
    /\ dbRequest
    /\ Len(modelReturns) >= 1
    /\ Len(FailureRecords) = 1
    /\ memoryStore.responses[1].requestId = memoryStore.requests[1].id

ToolChunks ==
    [j \in 1..Len(ToolTurns) |-> ToolChunk(ToolNamesOf(ToolTurns[j].tool_calls))]

\* The order of calls and writes of a streaming run that wrote evs: the
\* first event before the first completion, one event after each callTools
\* and before the next completion, the remaining events after the last
\* completion.
StreamTrace(evs) ==
    (IF userTools THEN <<>> ELSE <<"getTools">>)
        \o <<"write", "complete">>
        \o Flatten([j \in 1..Len(ToolTurns) |-> <<"invoke", "write", "complete">>])
        \o [i \in 1..(Len(evs) - 1 - Len(ToolTurns)) |-> "write"]

\* The events as the claim states them: initial chunk, tool chunks, one
\* chunk with the final content, the sentinel.
StatedEvents ==
    (<<InitialChunk>> \o ToolChunks)
        \o << ContentChunk(Last(modelReturns).content, Last(modelReturns).finish_reason),
              DoneSentinel >>

\* The events as the handler writes them: the content chunk only when the
\* final content is not empty, and a chunk with an empty delta and the
\* finish reason before the sentinel.
WrittenEvents ==
    (<<InitialChunk>> \o ToolChunks)
        \o (IF Last(modelReturns).content # <<>>
            THEN << ContentChunk(Last(modelReturns).content,
                                 Last(modelReturns).finish_reason) >>
            ELSE <<>>)
        \o << EndChunk(Last(modelReturns).finish_reason), DoneSentinel >>

\* C17 as stated: a successful streaming run writes the initial chunk before
\* the first completion, one tool chunk per tool turn between that turn's
\* callTools and the next completion, then one chunk with the final content,
\* then the sentinel, and nothing else.
C17_StreamOrderAsStated ==
    pc = "done" /\ stream =>
        events = StatedEvents /\ trace = StreamTrace(StatedEvents)

\* C17 amended: as stated, except that the chunk with the final content is
\* written only when that content is not empty, and that a chunk with an
\* empty delta and the finish reason is written before the sentinel.
C17_StreamOrder ==
    pc = "done" /\ stream =>
        events = WrittenEvents /\ trace = StreamTrace(WrittenEvents)

C17_Witness ==
    /\ pc = "done"
    /\ stream
    /\ Len(ToolTurns) = MaxModelCalls - 1
    /\ Last(modelReturns).content # <<>>
    /\ Len(events) = MaxModelCalls + 3

\* The number of [DONE] lines on the event stream.
SentinelCount == Len(SelectSeq(events, LAMBDA e : e = DoneSentinel))

\* C18: once a streaming request has written to the response, whichever way
\* it ends, its event stream ends with the [DONE] line, has that line once,
\* and the response is ended by the handler.
C18_StreamEndsWithSentinel ==
    pc \in {"done", "failed"} /\ headersSent =>
        /\ events # <<>>
        /\ Last(events) = DoneSentinel
        /\ SentinelCount = 1
        /\ resState = "ended"

\* The calls to the model and to callTools issued after the client closed
\* the connection.
CallsAfterClose ==
    SelectSeq(SubSeq(trace, closedAt[1] + 1, Len(trace)),
              LAMBDA c : c \in {"complete", "invoke"})

\* C19: when the client closes the connection of a streaming request while
\* a call is awaited, no completion and no callTools is issued after the
\* close: the call awaited at the close is the last one.
C19_NoCallAfterClose ==
    stream /\ closedAt # <<>> => CallsAfterClose = <<>>

\* The texts that are arguments of a tool call or contents of a tool result.
ArgumentsAndResults ==
    { ToolCall("a", "lookup").arguments, ToolResult("a").content[1],
      FailedResult("a").content[1] }

Tokens(text) == { text[i] : i \in 1..Len(text) }

\* C20: neither the JSON response nor any event of the stream carries the
\* arguments of a tool call or the result of a tool call: the tool calls
\* are given by name only.
C20_NoArgumentsNoResults ==
    /\ \A i \in 1..Len(events) : Tokens(events[i].content) \cap ArgumentsAndResults = {}
    /\ pc = "done" /\ ~stream =>
          LET body == httpResponse[1].body
          IN  /\ Tokens(body.content) \cap ArgumentsAndResults = {}
              /\ \A i \in 1..Len(body.tool_calls) :
                    "arguments" \notin DOMAIN body.tool_calls[i]

\* The tool calls the model has asked for so far, in the order it gave them.
RequestedToolCalls ==
    Flatten([i \in 1..Len(modelReturns) |-> modelReturns[i].tool_calls])

IsPrefix(s, t) == Len(s) <= Len(t) /\ SubSeq(t, 1, Len(s)) = s

\* toolNamesUsed holds one name per tool call asked for so far, in order.
NamesFollowRequests ==
    /\ Len(toolNamesUsed) = Len(RequestedToolCalls)
    /\ \A i \in 1..Len(toolNamesUsed) : toolNamesUsed[i] = RequestedToolCalls[i].name

\* tools_used of the response (and of the success record) is empty exactly
\* when no turn asked for a tool.
ToolsUsedEmptyIffNoToolTurn ==
    pc = "done" =>
        /\ (Last(SuccessRecords).toolCalls = <<>>) <=> (ToolTurns = <<>>)
        /\ ~stream => ((httpResponse[1].body.tools_used = <<>>) <=> (ToolTurns = <<>>))

\* C21: at every point toolNamesUsed is the names of the tool calls asked
\* for so far, turn by turn in the model's order, duplicates kept; it is only
\* appended to; and tools_used is empty exactly when no turn asked for a tool.
C21_ToolNamesAppendOnly ==
    /\ [](NamesFollowRequests /\ ToolsUsedEmptyIffNoToolTurn)
    /\ [][IsPrefix(toolNamesUsed, toolNamesUsed')]_vars

C21_Witness ==
    /\ pc = "done"
    /\ toolNamesUsed = <<"lookup", "price", "lookup">>
    /\ ~stream
    /\ httpResponse[1].body.tools_used = toolNamesUsed

\* What call i + 1 submits beyond what call i submitted.
Extension(i) ==
    SubSeq(modelCalls[i + 1].messages, Len(modelCalls[i].messages) + 1,
           Len(modelCalls[i + 1].messages))

\* Each completion is given the messages of the one before, followed by one
\* assistant message and then tool results only; the first is given the
\* caller's messages.
SubmittedGrows ==
    /\ modelCalls # <<>> => modelCalls[1].messages = messages
    /\ \A i \in 1..(Len(modelCalls) - 1) :
          /\ IsPrefix(modelCalls[i].messages, modelCalls[i + 1].messages)
          /\ Extension(i) # <<>>
          /\ IsAssistant(Extension(i)[1])
          /\ Extension(i)[1].content = modelReturns[i].content
          /\ \A k \in 2..Len(Extension(i)) : IsToolResult(Extension(i)[k])
    /\ modelCalls # <<>> => IsPrefix(Last(modelCalls).messages, conversationMessages)

\* C22: the conversation is only appended to: every completion is given the
\* messages of the previous one as a proper prefix, extended by the turn's
\* assistant message and its tool results, and no step of the handler
\* reorders, replaces or removes a message; the first completion is given
\* the caller's messages unchanged.
C22_ConversationAppendOnly ==
    /\ []SubmittedGrows
    /\ [][IsPrefix(conversationMessages, conversationMessages')]_vars

C22_Witness ==
    /\ Len(modelCalls) = MaxModelCalls
    /\ Len(Last(modelCalls).messages) = 1 + 3 * (MaxModelCalls - 1)
    /\ Len(Extension(1)) = 3

\* The tools of the run: the caller's, or else those UnifAI listed.
ResolvedTools == IF userTools THEN "userTools" ELSE "unifaiTools"

\* C23: the tools are resolved once, before the first completion: getTools
\* is called once when the body has no tools and never when it has, and
\* every completion of the run is given the same tools.
C23_ToolsResolvedOnce ==
    /\ listCalls = (IF dbRequest /\ ~userTools THEN 1 ELSE 0)
    /\ listCalls = Len(SelectSeq(trace, LAMBDA c : c = "getTools"))
    /\ modelCalls # <<>> /\ ~userTools => trace[1] = "getTools"
    /\ \A i \in 1..Len(modelCalls) : modelCalls[i].tools = ResolvedTools

C23_Witness ==
    /\ Len(modelCalls) = MaxModelCalls
    /\ ~userTools
    /\ listCalls = 1
    /\ Last(modelCalls).tools = "unifaiTools"

\* The completions and callTools calls issued and not yet returned (a call
\* that failed stays counted: the run is over then).
OpenModelCalls == Len(modelCalls) - Len(modelReturns)
OpenInvokeCalls == Len(invokeCalls) - Len(invokeReturns)

AtMostOneOutstanding ==
    /\ OpenModelCalls \in {0, 1}
    /\ OpenInvokeCalls \in {0, 1}
    /\ OpenModelCalls + OpenInvokeCalls <= 1
    /\ OpenModelCalls = 1 => pc \in {"awaitModel", "failed"}
    /\ OpenInvokeCalls = 1 => pc \in {"awaitTools", "failed"}

\* A step that issues a call issues one, and every call issued before it
\* has returned by then.
IssuedAfterReturn ==
    Len(modelCalls') + Len(invokeCalls') > Len(modelCalls) + Len(invokeCalls) =>
        /\ Len(modelCalls') + Len(invokeCalls') = Len(modelCalls) + Len(invokeCalls) + 1
        /\ Len(modelReturns') + Len(invokeReturns') = Len(modelCalls) + Len(invokeCalls)

\* C24: the loop is sequential: at most one completion or callTools call of
\* the request is outstanding at any time, and a call is issued only when
\* every earlier call has returned (after a failed call none is issued).
C24_OneCallAtATime ==
    /\ []AtMostOneOutstanding
    /\ [][IssuedAfterReturn]_vars

C24_Witness ==
    /\ pc = "awaitTools"
    /\ Len(invokeCalls) = MaxModelCalls - 1
    /\ OpenInvokeCalls = 1
    /\ OpenModelCalls = 0

\* C26: the translation of the model name (the "anthropic/" prefix removed
\* when the key starts with "sk-ant-") shows only in the model name given to
\* the upstream: the request record, the usage record, the response and the
\* stream events carry the caller's model name, and the messages given to
\* the upstream are those of the conversation.
C26_TranslationStaysLocal ==
    /\ \A i \in 1..Len(modelCalls) :
          /\ modelCalls[i].model =
                (IF apiKey = AnthropicKey THEN <<"claude">> ELSE model)
          /\ IsPrefix(modelCalls[i].messages, conversationMessages)
          /\ IsPrefix(messages, modelCalls[i].messages)
    /\ \A i \in 1..Len(memoryStore.requests) : memoryStore.requests[i].model = model
    /\ \A i \in 1..Len(memoryStore.tokenUsage) : memoryStore.tokenUsage[i].model = model
    /\ \A i \in 1..Len(events) : events[i].model = model
    /\ httpResponse # <<>> /\ pc = "done" => httpResponse[1].body.model = model
    /\ ActualModel(<<"gpt">>, apiKey) = <<"gpt">>

C26_Witness ==
    /\ pc = "done"
    /\ apiKey = AnthropicKey
    /\ Len(modelCalls) = MaxModelCalls
    /\ Last(modelCalls).model = <<"claude">>
    /\ memoryStore.tokenUsage[1].model = <<"anthropic/", "claude">>

\* C28: a tool-call record says success only for a tool call that has a
\* result and whose result is not a failure; a call without result or with
\* a failed result is recorded with success = FALSE.
C28_SuccessFlagIsTheResults ==
    \A i \in 1..Len(memoryStore.toolCalls) :
        memoryStore.toolCalls[i].success <=>
            /\ memoryStore.toolCalls[i].result # <<>>
            /\ memoryStore.toolCalls[i].result # FailedResult("a").content

\* The tool calls of the turns whose callTools returned, each with the
\* results of its turn, in the order of the turns and of the calls.
ReturnedCalls ==
    Flatten([j \in 1..Len(invokeReturns) |->
                [c \in 1..Len(invokeCalls[j]) |->
                    [call |-> invokeCalls[j][c], results |-> invokeReturns[j]]]])

\* The contents of the results that carry the id.
ContentsFor(results, id) ==
    { results[i].content : i \in { k \in 1..Len(results) : results[k].tool_call_id = id } }

\* C29: for every turn whose callTools returned there is exactly one record
\* per tool call of the turn, with the request id and the id of the call,
\* and its result is the content of the result that carries that id, none
\* if no result does: the position of a result in the list plays no part,
\* the reversed list gives the same records.
C29_RecordsCorrelateById ==
    LET returned == ReturnedCalls
    IN  /\ Len(memoryStore.toolCalls) = Len(returned)
        /\ \A k \in 1..Len(returned) :
              LET record == memoryStore.toolCalls[k]
                  call == returned[k].call
                  contents == ContentsFor(returned[k].results, call.id)
              IN  /\ record.requestId = requestId
                  /\ record.toolId = call.id
                  /\ record.toolName = call.name
                  /\ contents = {} => record.result = <<>>
                  /\ contents # {} => contents = {record.result}
        /\ \A k \in 1..Len(returned) :
              FindResult(Reverse(returned[k].results), returned[k].call.id)
                  = memoryStore.toolCalls[k].result

C29_Witness ==
    /\ Len(invokeReturns) = MaxModelCalls - 1
    /\ Len(invokeCalls[1]) = 2
    /\ invokeReturns[1] = Reverse(FullResults(invokeCalls[1]))
    /\ memoryStore.toolCalls[1].result = ToolResult(invokeCalls[1][1].id).content

\* The ids of the request records.
RequestIds == { memoryStore.requests[i].id : i \in 1..Len(memoryStore.requests) }

\* C30: the request record is written at the entry of the request, before
\* getTools and before the first completion: once any call has been made the
\* record of the request exists, and every tool-call, response and usage
\* record refers to a request record that exists.
C30_RequestRecordFirst ==
    /\ trace # <<>> => Len(memoryStore.requests) = 1 /\ RequestIds = {requestId}
    /\ dbRequest <=> memoryStore.requests # <<>>
    /\ \A i \in 1..Len(memoryStore.toolCalls) :
          memoryStore.toolCalls[i].requestId \in RequestIds
    /\ \A i \in 1..Len(memoryStore.responses) :
          memoryStore.responses[i].requestId \in RequestIds
    /\ \A i \in 1..Len(memoryStore.tokenUsage) :
          memoryStore.tokenUsage[i].requestId \in RequestIds

C30_Witness ==
    /\ trace = <<"getTools">>
    /\ pc = "awaitGetTools"
    /\ Len(memoryStore.requests) = 1
    /\ modelCalls = <<>>

\* The completions and callTools calls of a trace, in order.
CallsOf(calls) == SelectSeq(calls, LAMBDA c : c \in {"complete", "invoke"})

\* What a loop added to the messages it began with.
Added(conversation, initial) ==
    SubSeq(conversation, Len(initial) + 1, Len(conversation))

\* C27: given the same responses of the model and of callTools, the
\* analysis loop and the chat loop make the same completions and callTools
\* calls, add the same messages to their conversations and end after the same
\* call, also when callTools returns no result.
C27_SameLoop ==
    pc = "done" /\ aPc = "done" =>
        /\ CallsOf(aTrace) = CallsOf(trace)
        /\ Added(aMessages, analysisMessages) = Added(conversationMessages, messages)

\* What request r's own model and tool responses make of its conversation:
\* its messages, then turn by turn the assistant message and the results.
OwnConversation(r) ==
    LET h == handlers[r]
    IN  messagesOf(r) \o
        Flatten([i \in 1..Len(h.modelReturns) |->
                    <<AssistantMessage(h.modelReturns[i])>> \o
                    (IF i <= Len(h.invokeReturns) THEN h.invokeReturns[i] ELSE <<>>)])

OwnToolCalls(r) ==
    Flatten([i \in 1..Len(handlers[r].modelReturns) |->
                handlers[r].modelReturns[i].tool_calls])

OwnTotal(r) ==
    SumSeq([i \in 1..Len(handlers[r].modelReturns) |->
               handlers[r].modelReturns[i].usage.total_tokens])

\* The records of request r in the store.
RecordsOf(records, r) == SelectSeq(records, LAMBDA x : x.requestId = r)

\* The state and the response of request r come from its own input and its
\* own responses.
OwnRun(r) ==
    LET h == handlers[r]
    IN  /\ h.pc # "idle" => h.conversationMessages = OwnConversation(r)
        /\ h.totalTokens.total = OwnTotal(r)
        /\ Len(h.toolNamesUsed) = Len(OwnToolCalls(r))
        /\ \A i \in 1..Len(h.toolNamesUsed) : h.toolNamesUsed[i] = OwnToolCalls(r)[i].name
        /\ h.pc = "done" =>
              /\ h.response[1].id = r
              /\ h.response[1].content =
                    Flatten([i \in 1..Len(h.modelReturns) |-> h.modelReturns[i].content])
              /\ h.response[1].tool_calls = OwnToolCalls(r)
              /\ h.response[1].usage.total_tokens = OwnTotal(r)
              /\ Len(h.response[1].tools_used) = Len(OwnToolCalls(r))

\* The records that carry the id of request r are those r wrote.
OwnRecords(r) ==
    LET h == handlers[r]
        mine == SelectSeq(memoryStore.requests, LAMBDA x : x.id = r)
        returned == Flatten([i \in 1..Len(h.invokeReturns) |->
                                h.modelReturns[i].tool_calls])
        calls == RecordsOf(memoryStore.toolCalls, r)
    IN  /\ Len(mine) = (IF h.pc = "idle" THEN 0 ELSE 1)
        /\ \A i \in 1..Len(mine) : mine[i].messages = messagesOf(r)
        /\ Len(calls) = Len(returned)
        /\ \A i \in 1..Len(calls) : calls[i].toolId = returned[i].id
        /\ Len(RecordsOf(memoryStore.responses, r)) =
              (IF h.pc \in {"done", "failed"} THEN 1 ELSE 0)
        /\ Len(RecordsOf(memoryStore.tokenUsage, r)) = (IF h.pc = "done" THEN 1 ELSE 0)
        /\ h.pc = "done" =>
              /\ RecordsOf(memoryStore.tokenUsage, r)[1].totalTokens = OwnTotal(r)
              /\ RecordsOf(memoryStore.responses, r)[1].content = h.response[1].content

\* A write to the store adds records and leaves those it holds as they are.
StoreOnlyGrows ==
    /\ IsPrefix(memoryStore.requests, memoryStore'.requests)
    /\ IsPrefix(memoryStore.toolCalls, memoryStore'.toolCalls)
    /\ IsPrefix(memoryStore.responses, memoryStore'.responses)
    /\ IsPrefix(memoryStore.tokenUsage, memoryStore'.tokenUsage)

\* C25: with two chat requests interleaved at their awaits, the
\* conversation, usage, tools_used and response of each request are those
\* of its own input and its own model and tool responses; every record of
\* the shared store carries the id of the request that wrote it, and no
\* write of one request alters or removes a record.
C25_RequestsIndependent ==
    /\ [](\A r \in Requests : OwnRun(r) /\ OwnRecords(r))
    /\ [][StoreOnlyGrows]_vars

C25_Witness ==
    /\ \A r \in Requests : handlers[r].pc = "done" /\ Len(handlers[r].invokeReturns) = 1
    /\ memoryStore.requests[1].id = "r1"
    /\ memoryStore.toolCalls[1].requestId = "r2"
    /\ memoryStore.responses[1].requestId = "r1"
    /\ handlers["r1"].toolNamesUsed # handlers["r2"].toolNamesUsed

\* The client is told of an authentication failure.
AuthFailureReported ==
    /\ httpResponse # <<>>
    /\ httpResponse[1].status = 401
    /\ httpResponse[1].body.code = "auth_error"

\* The call the handler was waiting for when it failed is a completion.
CompletionRejected ==
    /\ trace # <<>>
    /\ Last(trace) = "complete"
    /\ Len(modelReturns) < Len(modelCalls)

\* C31: the client is told of an authentication failure (status 401, code
\* "auth_error") only when a completion was rejected: never when callTools
\* threw or when a write of a tool-call record was rejected.
C31_AuthErrorOnlyFromModel == AuthFailureReported => CompletionRejected

\* The assistant messages of the analysis, in the order the model gave them.
aAnswers == SelectSeq(aMessages, IsAssistant)

\* C33: when runCryptoTokenAnalysis returns, whether its loop ended on a
\* turn without tool calls or on a callTools without results, it returns the
\* content of the last assistant message the model gave, or the fixed text
\* when that content is empty, and never the content of a tool result; until
\* then it has returned nothing.
C33_ReturnsLastAnswer ==
    /\ aPc # "done" => aResult = <<>>
    /\ aPc = "done" =>
          /\ Len(aAnswers) = Len(aModelCalls)
          /\ IsAssistant(Last(aMessages))
          /\ aResult = << IF Last(aAnswers).content = <<>>
                          THEN NoContent
                          ELSE Last(aAnswers).content >>
          /\ \A i \in 1..Len(aMessages) :
                IsToolResult(aMessages[i]) => aResult[1] # aMessages[i].content

C33_Witness ==
    /\ aPc = "done"
    /\ Last(aTrace) = "invoke"
    /\ \E i \in 1..Len(aMessages) : IsToolResult(aMessages[i])
    /\ Last(aMessages).tool_calls # <<>>
    /\ aResult = << <<"x">> >>

\* The success response {success, url, timestamp} is among those sent.
SuccessSent == \E i \in 1..Len(rResponses) : rResponses[i].success

\* C32: an analyze request gets exactly one response, whatever becomes of the
\* file write: at most one is ever sent and one has been sent when the
\* request is over; a request that was answered with the success response
\* ends with its page written; and no second response is attempted after it.
C32_OneResponsePerAnalyze ==
    /\ Len(rResponses) <= 1
    /\ rPc = "done" => Len(rResponses) = 1
    /\ SuccessSent /\ rPc = "done" => file = "written"
    /\ SuccessSent => uncaught = <<>>

====
